---- MODULE Spec2Model ----
(***************************************************************************)
(* Model of pe4.py: a Wikipedia search followed by a sequential and/or a   *)
(* thread-pool download of each topic's page, and one JSON dump of all     *)
(* records.                                                                *)
(*                                                                         *)
(* The main thread is modelled by pc (its position in main and in the      *)
(* runner it is executing); the pool's worker threads are modelled by the  *)
(* state of each future (PENDING in the work queue, RUNNING on a worker,   *)
(* FINISHED).  The remote collaborator is the variable wiki, the file      *)
(* system is dirExists/file, and what the process prints, besides the      *)
(* per-topic progress lines that accompany every appended record, is the   *)
(* set printed.  Elapsed times are not modelled.                           *)
(***************************************************************************)
EXTENDS Integers, Sequences, FiniteSets

\* Bounds of the model.
MaxTopics == 3
MaxWorkers == 2

\* Topic identifiers a search can return (duplicates allowed in one result).
Topics == {"a", "b"}

TopicSeqs == UNION {[1..n -> Topics] : n \in 0..MaxTopics}

\* What wikipedia.page(topic) does: return a page, or raise one of these.
\* "Exception" stands for any other subclass of Exception.
Responses == {"page", "PageError", "DisambiguationError", "Exception"}

Modes == {"sequential", "concurrent", "both"}

VARIABLES
    mode,                \* args.mode
    max_workers,         \* args.max_workers
    wiki,                \* the collaborator: outcome of a page lookup per topic
    pc,                  \* position of the main thread
    search_result,       \* "none", "raised" or "returned"
    search_topics,       \* main: search_topics
    seq_i,               \* run_sequential_download: position of the for loop
    seq_all_results,     \* run_sequential_download: all_results
    conc_all_results,    \* run_concurrent_download: all_results
    futures,             \* future_to_topic, in insertion order
    next,                \* position of the for loop over future_to_topic
    collectOrder,        \* indices of the futures whose record was appended
    returned,            \* the runners that have returned to main
    all_downloaded_data, \* main: all_downloaded_data
    fetchLog,            \* the Fetch Unit invocations, in call order
    sinkCalls,           \* the arguments save_results_to_json was called with
    sinkFailure,         \* the I/O failure the sink met, "none" if none
    dirExists,           \* the output directory exists
    file,                \* the output artifact
    printed,             \* diagnostics and summary written to stdout
    uncaught,            \* the exception that left main, "none" if none
    exitStatus           \* the process exit status, -1 while running

vars == <<mode, max_workers, wiki, pc, search_result, search_topics,
          seq_i, seq_all_results, conc_all_results, futures, next, collectOrder,
          returned, all_downloaded_data, fetchLog, sinkCalls, sinkFailure,
          dirExists, file, printed, uncaught, exitStatus>>

NoFile == [exists |-> FALSE, complete |-> FALSE, records |-> <<>>]

NoRecord == [status |-> "none"]

----------------------------------------------------------------------------
\* Python exception matching: `except cls` catches kind when kind is cls or a
\* subclass of it.  PageError and DisambiguationError derive from Exception.
IsInstance(kind, cls) ==
    \/ kind = cls
    \/ cls = "Exception" /\ kind \in {"PageError", "DisambiguationError", "Exception"}

PageTitle(topic) == <<"title", topic>>

PageReferences(topic) == <<<<"https://", topic>>>>

DisambiguationOptions(topic) == <<<<topic, "(1)">>, <<topic, "(2)">>>>

SuccessRecord(topic) ==
    [topic |-> topic, page_title |-> PageTitle(topic),
     references |-> PageReferences(topic), status |-> "success"]

ErrorRecord(topic, message) ==
    [topic |-> topic, error |-> message, status |-> "error"]

Return(value) == [raised |-> FALSE, exc |-> "none", value |-> value]

Raise(kind) == [raised |-> TRUE, exc |-> kind, value |-> NoRecord]

\* The Fetch Unit with its last handler missing.
FetchUnit_NoCatchAll(topic) ==
    LET outcome == wiki[topic] IN
    IF outcome = "page" THEN Return(SuccessRecord(topic))
    ELSE IF IsInstance(outcome, "PageError")
         THEN Return(ErrorRecord(topic, "PageError: Could not find page."))
    ELSE IF IsInstance(outcome, "DisambiguationError")
         THEN Return(ErrorRecord(topic,
                  <<"DisambiguationError: Options are: ", DisambiguationOptions(topic)>>))
    ELSE Raise(outcome)

\* download_and_save_references(topic, output_dir): the try block and its
\* three handlers, tried in order; an exception no handler matches propagates.
download_and_save_references(topic) ==
    LET outcome == wiki[topic] IN
    IF outcome = "page" THEN Return(SuccessRecord(topic))
    ELSE IF IsInstance(outcome, "PageError")
         THEN Return(ErrorRecord(topic, "PageError: Could not find page."))
    ELSE IF IsInstance(outcome, "DisambiguationError")
         THEN Return(ErrorRecord(topic,
                  <<"DisambiguationError: Options are: ", DisambiguationOptions(topic)>>))
    ELSE IF IsInstance(outcome, "Exception")
         THEN Return(ErrorRecord(topic,
                  <<"An unexpected error occurred: ", outcome>>))
    ELSE Raise(outcome)

----------------------------------------------------------------------------
Init ==
    /\ mode \in Modes
    /\ max_workers \in 1..MaxWorkers
    /\ wiki \in [Topics -> Responses]
    /\ pc = "search"
    /\ search_result = "none"
    /\ search_topics = <<>>
    /\ seq_i = 1
    /\ seq_all_results = <<>>
    /\ conc_all_results = <<>>
    /\ futures = <<>>
    /\ next = 1
    /\ collectOrder = <<>>
    /\ returned = {}
    /\ all_downloaded_data = <<>>
    /\ fetchLog = <<>>
    /\ sinkCalls = <<>>
    /\ sinkFailure = "none"
    /\ dirExists = FALSE
    /\ file = NoFile
    /\ printed = {}
    /\ uncaught = "none"
    /\ exitStatus = -1

----------------------------------------------------------------------------
\* Variable groups left alone by the steps below.
argVars == <<mode, max_workers, wiki>>

seqVars == <<seq_i, seq_all_results>>

poolVars == <<futures, next, collectOrder, conc_all_results>>

sinkVars == <<sinkCalls, sinkFailure, dirExists, file>>

\* The interpreter's exit status once main has returned (0) or an exception
\* has left it (1).
ExitStatusOf(exc) == IF exc = "none" THEN 0 ELSE 1

\* The first runner main starts for the mode.
FirstRunner == IF mode \in {"sequential", "both"} THEN "sequential" ELSE "concurrent"

----------------------------------------------------------------------------
\* main, the search step.

\* The handler of a search error falling through to the runners.
MainSearchError_NoReturn ==
    /\ pc = "search"
    /\ search_result' = "raised"
    /\ printed' = printed \cup {"search_error"}
    /\ pc' = "save"
    /\ UNCHANGED <<argVars, search_topics, seqVars, poolVars, returned,
                   all_downloaded_data, fetchLog, sinkVars, uncaught, exitStatus>>

\* wikipedia.search raises: the diagnostic is printed and main returns.
MainSearchError ==
    /\ pc = "search"
    /\ search_result' = "raised"
    /\ printed' = printed \cup {"search_error"}
    /\ pc' = "done"
    /\ exitStatus' = ExitStatusOf(uncaught)
    /\ UNCHANGED <<argVars, search_topics, seqVars, poolVars, returned,
                   all_downloaded_data, fetchLog, sinkVars, uncaught>>

\* An empty search result treated like any other.
MainSearchEmpty_NoEarlyExit ==
    /\ pc = "search"
    /\ search_result' = "returned"
    /\ search_topics' = <<>>
    /\ printed' = printed \cup {"found"}
    /\ pc' = FirstRunner
    /\ UNCHANGED <<argVars, seqVars, poolVars, returned, all_downloaded_data,
                   fetchLog, sinkVars, uncaught, exitStatus>>

\* wikipedia.search returns no topic: main reports it and returns.
MainSearchEmpty ==
    /\ pc = "search"
    /\ search_result' = "returned"
    /\ search_topics' = <<>>
    /\ printed' = printed \cup {"no_topics"}
    /\ pc' = "done"
    /\ exitStatus' = ExitStatusOf(uncaught)
    /\ UNCHANGED <<argVars, seqVars, poolVars, returned, all_downloaded_data,
                   fetchLog, sinkVars, uncaught>>

\* wikipedia.search returns topics: main goes on to the runners of the mode.
MainSearchFound ==
    /\ pc = "search"
    /\ \E ts \in TopicSeqs \ {<<>>} : search_topics' = ts
    /\ search_result' = "returned"
    /\ printed' = printed \cup {"found"}
    /\ pc' = FirstRunner
    /\ UNCHANGED <<argVars, seqVars, poolVars, returned, all_downloaded_data,
                   fetchLog, sinkVars, uncaught, exitStatus>>

----------------------------------------------------------------------------
\* run_sequential_download.

\* The loop body keeping only the records of successful fetches.
SeqStep_DropFailures ==
    /\ pc = "sequential"
    /\ seq_i <= Len(search_topics)
    /\ LET r == download_and_save_references(search_topics[seq_i])
       IN /\ fetchLog' = Append(fetchLog, [by |-> "sequential", i |-> seq_i])
          /\ seq_all_results' = IF r.value.status = "success"
                                THEN Append(seq_all_results, r.value)
                                ELSE seq_all_results
    /\ seq_i' = seq_i + 1
    /\ UNCHANGED <<argVars, pc, search_result, search_topics, poolVars, returned,
                   all_downloaded_data, sinkVars, printed, uncaught, exitStatus>>

\* One iteration of the for loop: fetch the next topic, append its record
\* and print its progress line.  An exception of the fetch would leave the
\* runner and main.
SeqStep ==
    /\ pc = "sequential"
    /\ seq_i <= Len(search_topics)
    /\ LET r == download_and_save_references(search_topics[seq_i])
       IN /\ fetchLog' = Append(fetchLog, [by |-> "sequential", i |-> seq_i])
          /\ IF r.raised
             THEN /\ uncaught' = r.exc
                  /\ pc' = "done"
                  /\ exitStatus' = ExitStatusOf(r.exc)
                  /\ UNCHANGED <<seq_i, seq_all_results>>
             ELSE /\ seq_all_results' = Append(seq_all_results, r.value)
                  /\ seq_i' = seq_i + 1
                  /\ UNCHANGED <<pc, uncaught, exitStatus>>
    /\ UNCHANGED <<argVars, search_result, search_topics, poolVars, returned,
                   all_downloaded_data, sinkVars, printed>>

\* The loop is over: the runner returns and main extends all_downloaded_data.
SeqReturn ==
    /\ pc = "sequential"
    /\ seq_i > Len(search_topics)
    /\ returned' = returned \cup {"sequential"}
    /\ all_downloaded_data' = all_downloaded_data \o seq_all_results
    /\ pc' = IF mode = "both" THEN "concurrent" ELSE "save"
    /\ UNCHANGED <<argVars, search_result, search_topics, seqVars, poolVars,
                   fetchLog, sinkVars, printed, uncaught, exitStatus>>

----------------------------------------------------------------------------
\* run_concurrent_download: the pool.

NewFuture(topic) ==
    [topic |-> topic, state |-> "PENDING", result |-> NoRecord, exception |-> "none"]

Running == {i \in DOMAIN futures : futures[i].state = "RUNNING"}

AllSubmitted == Len(futures) = Len(search_topics)

AllFinished == \A i \in DOMAIN futures : futures[i].state = "FINISHED"

\* executor.submit of the dict comprehension: one future per topic, in input
\* order, put on the pool's work queue.
Submit ==
    /\ pc = "concurrent"
    /\ Len(futures) < Len(search_topics)
    /\ futures' = Append(futures, NewFuture(search_topics[Len(futures) + 1]))
    /\ UNCHANGED <<argVars, pc, search_result, search_topics, seqVars, next,
                   collectOrder, conc_all_results, returned, all_downloaded_data,
                   fetchLog, sinkVars, printed, uncaught, exitStatus>>

\* A pool whose threads each run one task and are never reused.
WorkerStart_NoReuse(i) ==
    /\ i \in DOMAIN futures
    /\ futures[i].state = "PENDING"
    /\ \A j \in 1..(i - 1) : futures[j].state # "PENDING"
    /\ i <= max_workers
    /\ futures' = [futures EXCEPT ![i].state = "RUNNING"]
    /\ fetchLog' = Append(fetchLog, [by |-> "pool", i |-> i])
    /\ UNCHANGED <<argVars, pc, search_result, search_topics, seqVars, next,
                   collectOrder, conc_all_results, returned, all_downloaded_data,
                   sinkVars, printed, uncaught, exitStatus>>

\* A worker thread takes the oldest queued work item and calls the Fetch
\* Unit; at most max_workers threads exist.
WorkerStart(i) ==
    /\ i \in DOMAIN futures
    /\ futures[i].state = "PENDING"
    /\ \A j \in 1..(i - 1) : futures[j].state # "PENDING"
    /\ Cardinality(Running) < max_workers
    /\ futures' = [futures EXCEPT ![i].state = "RUNNING"]
    /\ fetchLog' = Append(fetchLog, [by |-> "pool", i |-> i])
    /\ UNCHANGED <<argVars, pc, search_result, search_topics, seqVars, next,
                   collectOrder, conc_all_results, returned, all_downloaded_data,
                   sinkVars, printed, uncaught, exitStatus>>

\* The call of a running task resolves: the worker stores the record the
\* Fetch Unit returned in the future, or the exception the task raised.  A
\* task can raise although the Fetch Unit catches what the collaborator
\* raises (taskRaises): the case the handler of the collecting loop is for.
WorkerFinish(i) ==
    /\ i \in DOMAIN futures
    /\ futures[i].state = "RUNNING"
    /\ \E taskRaises \in BOOLEAN :
         LET r == download_and_save_references(futures[i].topic)
             exc == IF r.raised THEN r.exc
                    ELSE IF taskRaises THEN "Exception" ELSE "none"
         IN futures' = [futures EXCEPT ![i] =
                [topic |-> futures[i].topic, state |-> "FINISHED",
                 result |-> IF exc = "none" THEN r.value ELSE NoRecord,
                 exception |-> exc]]
    /\ UNCHANGED <<argVars, pc, search_result, search_topics, seqVars, next,
                   collectOrder, conc_all_results, returned, all_downloaded_data,
                   fetchLog, sinkVars, printed, uncaught, exitStatus>>

----------------------------------------------------------------------------
\* run_concurrent_download: the collecting loop and the return.

\* The record the loop body appends for future j: the result of the task,
\* or, when future.result() raises an Exception, an error record for the
\* topic future_to_topic maps the future to.
RecordOf(j) ==
    IF futures[j].exception = "none"
    THEN futures[j].result
    ELSE ErrorRecord(futures[j].topic, futures[j].exception)

\* The loop body polling the future instead of blocking on it.
Collect_NoWait ==
    /\ pc = "concurrent"
    /\ AllSubmitted
    /\ next <= Len(futures)
    /\ IF futures[next].state = "FINISHED"
       THEN /\ conc_all_results' = Append(conc_all_results, RecordOf(next))
            /\ collectOrder' = Append(collectOrder, next)
       ELSE UNCHANGED <<conc_all_results, collectOrder>>
    /\ next' = next + 1
    /\ UNCHANGED <<argVars, pc, search_result, search_topics, seqVars, futures,
                   returned, all_downloaded_data, fetchLog, sinkVars, printed,
                   uncaught, exitStatus>>

\* The loop body with a handler that only prints.
Collect_DropOnException ==
    /\ pc = "concurrent"
    /\ AllSubmitted
    /\ next <= Len(futures)
    /\ futures[next].state = "FINISHED"
    /\ IF futures[next].exception = "none"
       THEN /\ conc_all_results' = Append(conc_all_results, RecordOf(next))
            /\ collectOrder' = Append(collectOrder, next)
       ELSE UNCHANGED <<conc_all_results, collectOrder>>
    /\ next' = next + 1
    /\ UNCHANGED <<argVars, pc, search_result, search_topics, seqVars, futures,
                   returned, all_downloaded_data, fetchLog, sinkVars, printed,
                   uncaught, exitStatus>>

\* The loop iterating over as_completed(future_to_topic).
Collect_AsCompleted ==
    /\ pc = "concurrent"
    /\ AllSubmitted
    /\ next <= Len(futures)
    /\ \E j \in DOMAIN futures :
         /\ futures[j].state = "FINISHED"
         /\ \A k \in DOMAIN collectOrder : collectOrder[k] # j
         /\ conc_all_results' = Append(conc_all_results, RecordOf(j))
         /\ collectOrder' = Append(collectOrder, j)
    /\ next' = next + 1
    /\ UNCHANGED <<argVars, pc, search_result, search_topics, seqVars, futures,
                   returned, all_downloaded_data, fetchLog, sinkVars, printed,
                   uncaught, exitStatus>>

\* One iteration of `for future in future_to_topic`: the dict yields the
\* futures in insertion order, future.result() blocks until that future is
\* finished, and its record is appended and its progress line printed.  An
\* exception that is no Exception would leave the runner and main.
Collect ==
    /\ pc = "concurrent"
    /\ AllSubmitted
    /\ next <= Len(futures)
    /\ futures[next].state = "FINISHED"
    /\ IF futures[next].exception = "none" \/ IsInstance(futures[next].exception, "Exception")
       THEN /\ conc_all_results' = Append(conc_all_results, RecordOf(next))
            /\ collectOrder' = Append(collectOrder, next)
            /\ next' = next + 1
            /\ UNCHANGED <<pc, uncaught, exitStatus>>
       ELSE /\ uncaught' = futures[next].exception
            /\ pc' = "done"
            /\ exitStatus' = ExitStatusOf(futures[next].exception)
            /\ UNCHANGED <<conc_all_results, collectOrder, next>>
    /\ UNCHANGED <<argVars, search_result, search_topics, seqVars, futures,
                   returned, all_downloaded_data, fetchLog, sinkVars, printed>>

\* The return overwriting what main has collected so far.
ConcReturn_Overwrite ==
    /\ pc = "concurrent"
    /\ AllSubmitted
    /\ next > Len(futures)
    /\ AllFinished
    /\ returned' = returned \cup {"concurrent"}
    /\ all_downloaded_data' = conc_all_results
    /\ pc' = "save"
    /\ UNCHANGED <<argVars, search_result, search_topics, seqVars, poolVars,
                   fetchLog, sinkVars, printed, uncaught, exitStatus>>

\* The loop is over: leaving the with block shuts the executor down, which
\* waits for every work item; the runner returns and main extends
\* all_downloaded_data.
ConcReturn ==
    /\ pc = "concurrent"
    /\ AllSubmitted
    /\ next > Len(futures)
    /\ AllFinished
    /\ returned' = returned \cup {"concurrent"}
    /\ all_downloaded_data' = all_downloaded_data \o conc_all_results
    /\ pc' = "save"
    /\ UNCHANGED <<argVars, search_result, search_topics, seqVars, poolVars,
                   fetchLog, sinkVars, printed, uncaught, exitStatus>>

----------------------------------------------------------------------------
\* save_results_to_json and the end of main.

WholeFile(results) == [exists |-> TRUE, complete |-> TRUE, records |-> results]

TruncatedFile == [exists |-> TRUE, complete |-> FALSE, records |-> <<>>]

\* save_results_to_json(all_downloaded_data, args.output_dir).  os.makedirs
\* runs before the try block, so an OSError it raises leaves the function
\* and main; open and json.dump run inside it, and the IOError (OSError)
\* they raise is caught and reported.
SaveResults ==
    /\ pc = "save"
    /\ sinkCalls' = Append(sinkCalls, all_downloaded_data)
    /\ \/ /\ sinkFailure' = "makedirs"
          /\ uncaught' = "OSError"
          /\ pc' = "done"
          /\ exitStatus' = ExitStatusOf("OSError")
          /\ UNCHANGED <<dirExists, file, printed>>
       \/ /\ sinkFailure' = "open"
          /\ dirExists' = TRUE
          /\ printed' = printed \cup {"save_error"}
          /\ pc' = "summary"
          /\ UNCHANGED <<file, uncaught, exitStatus>>
       \/ /\ sinkFailure' = "write"
          /\ dirExists' = TRUE
          /\ file' = TruncatedFile
          /\ printed' = printed \cup {"save_error"}
          /\ pc' = "summary"
          /\ UNCHANGED <<uncaught, exitStatus>>
       \/ /\ sinkFailure' = "none"
          /\ dirExists' = TRUE
          /\ file' = WholeFile(all_downloaded_data)
          /\ printed' = printed \cup {"saved"}
          /\ pc' = "summary"
          /\ UNCHANGED <<uncaught, exitStatus>>
    /\ UNCHANGED <<argVars, search_result, search_topics, seqVars, poolVars,
                   returned, all_downloaded_data, fetchLog>>

\* The summary of both timings is printed, main returns and the process
\* exits.
Summary ==
    /\ pc = "summary"
    /\ printed' = printed \cup {"summary"}
    /\ pc' = "done"
    /\ exitStatus' = ExitStatusOf(uncaught)
    /\ UNCHANGED <<argVars, search_result, search_topics, seqVars, poolVars,
                   returned, all_downloaded_data, fetchLog, sinkVars, uncaught>>

----------------------------------------------------------------------------
Next ==
    \/ MainSearchError
    \/ MainSearchEmpty
    \/ MainSearchFound
    \/ SeqStep
    \/ SeqReturn
    \/ Submit
    \/ \E i \in 1..MaxTopics : WorkerStart(i)
    \/ \E i \in 1..MaxTopics : WorkerFinish(i)
    \/ Collect
    \/ ConcReturn
    \/ SaveResults
    \/ Summary

Spec == Init /\ [][Next]_vars

\* The main thread runs whenever it can, every worker thread picks up queued
\* work whenever it can, and every remote call eventually returns or raises.
MainThread ==
    \/ MainSearchError
    \/ MainSearchEmpty
    \/ MainSearchFound
    \/ SeqStep
    \/ SeqReturn
    \/ Submit
    \/ Collect
    \/ ConcReturn
    \/ SaveResults
    \/ Summary

FairSpec ==
    /\ Init
    /\ [][Next]_vars
    /\ WF_vars(MainThread)
    /\ \A i \in 1..MaxTopics : WF_vars(WorkerStart(i)) /\ WF_vars(WorkerFinish(i))

----------------------------------------------------------------------------
\* Properties.

\* Number of records of seq that carry topic t.
CountRecords(seq, t) == Cardinality({k \in DOMAIN seq : seq[k].topic = t})

\* Number of occurrences of topic t in the topic sequence ts.
CountTopics(ts, t) == Cardinality({k \in DOMAIN ts : ts[k] = t})

SequentialCalls == SelectSeq(fetchLog, LAMBDA c : c.by = "sequential")

\* C1: the Fetch Unit never propagates an exception: whatever a page lookup
\* of a topic does (page found, PageError, DisambiguationError, any other
\* Exception), the call returns one record for that topic, with status
\* "success" when the page is found and "error" otherwise; no exception of a
\* fetch ever leaves the sequential runner, and every record it holds has
\* the status of its topic's lookup.
C1_FetchUnitNeverRaises ==
    /\ \A t \in Topics :
         LET r == download_and_save_references(t)
         IN /\ ~r.raised
            /\ r.value.topic = t
            /\ r.value.status = IF wiki[t] = "page" THEN "success" ELSE "error"
    /\ uncaught \notin Responses
    /\ Len(SequentialCalls) = Len(seq_all_results)
    /\ \A k \in DOMAIN seq_all_results :
         seq_all_results[k].status =
             IF wiki[seq_all_results[k].topic] = "page" THEN "success" ELSE "error"

C1_Witness ==
    \E j, k \in DOMAIN seq_all_results :
        /\ seq_all_results[j].status = "success"
        /\ seq_all_results[k].status = "error"
        /\ wiki[seq_all_results[k].topic] = "Exception"

\* C2: when the Concurrent Runner has returned, every submitted task has
\* finished, one future was submitted per topic, and the returned records
\* are one per submitted topic: as many as topics, with the same multiset of
\* topics.
C2_ConcurrentOneRecordPerTopic ==
    "concurrent" \in returned =>
        /\ AllSubmitted
        /\ AllFinished
        /\ Len(conc_all_results) = Len(search_topics)
        /\ \A t \in Topics :
             CountRecords(conc_all_results, t) = CountTopics(search_topics, t)

C2_Witness ==
    /\ "concurrent" \in returned
    /\ Len(search_topics) > max_workers
    /\ \E j, k \in DOMAIN search_topics : j # k /\ search_topics[j] = search_topics[k]

\* C3: the Sequential Runner calls the Fetch Unit once per topic, in input
\* order, and its k-th record carries the k-th topic; when it has returned,
\* it holds as many records as there are topics.
C3_SequentialInOrder ==
    /\ SequentialCalls = [k \in 1..(seq_i - 1) |-> [by |-> "sequential", i |-> k]]
    /\ Len(seq_all_results) = seq_i - 1
    /\ \A k \in DOMAIN seq_all_results : seq_all_results[k].topic = search_topics[k]
    /\ "sequential" \in returned => Len(seq_all_results) = Len(search_topics)

C3_Witness ==
    /\ "sequential" \in returned
    /\ Len(search_topics) >= 2
    /\ search_topics[1] # search_topics[2]
    /\ seq_all_results[1].status # seq_all_results[2].status

\* C4: the sequence handed to the Result Sink is the sequential records (in
\* modes sequential and both) followed by the concurrent records (in modes
\* concurrent and both), nothing removed: n records for n topics in mode
\* sequential or concurrent, 2n in mode both.
C4_SinkGetsConcatenation ==
    \A c \in DOMAIN sinkCalls :
        /\ sinkCalls[c] =
               (IF mode \in {"sequential", "both"} THEN seq_all_results ELSE <<>>)
               \o (IF mode \in {"concurrent", "both"} THEN conc_all_results ELSE <<>>)
        /\ Len(sinkCalls[c]) =
               IF mode = "both" THEN 2 * Len(search_topics) ELSE Len(search_topics)

C4_Witness ==
    /\ mode = "both"
    /\ Len(search_topics) = 2
    /\ Len(sinkCalls) = 1
    /\ Len(sinkCalls[1]) = 4

\* C5: a task that raised costs the Concurrent Runner nothing: the loop has
\* appended one record per future it went past, the record of a future that
\* holds an exception is the error record of that future's topic, and no
\* exception leaves the runner.
C5_TaskExceptionRecorded ==
    /\ Len(conc_all_results) = next - 1
    /\ \A j \in DOMAIN conc_all_results :
         /\ conc_all_results[j].topic = futures[j].topic
         /\ futures[j].exception # "none" =>
               conc_all_results[j] = ErrorRecord(futures[j].topic, futures[j].exception)
    /\ pc = "concurrent" => uncaught = "none"
    /\ uncaught \in {"none", "OSError"}

C5_Witness ==
    /\ "concurrent" \in returned
    /\ \E j, k \in DOMAIN futures :
         /\ j < k
         /\ futures[j].exception # "none"
         /\ futures[k].exception = "none"
         /\ conc_all_results[k].status = "success"

\* C6: a failure of the Result Sink is not fatal: whichever step of
\* save_results_to_json fails, the failure is reported, no exception
\* reaches main and the summary is printed.
C6_SinkFailureNonFatal ==
    (pc = "done" /\ sinkFailure # "none") =>
        /\ uncaught = "none"
        /\ "save_error" \in printed
        /\ "summary" \in printed

\* C7: after an empty search result the program has called no Fetch Unit,
\* started no runner, not called the Result Sink, created no directory and
\* no file, and has ended with the exit status of success.
C7_EmptySearchExitsCleanly ==
    (search_result = "returned" /\ search_topics = <<>>) =>
        /\ pc = "done"
        /\ exitStatus = 0
        /\ uncaught = "none"
        /\ "no_topics" \in printed
        /\ fetchLog = <<>>
        /\ futures = <<>>
        /\ returned = {}
        /\ sinkCalls = <<>>
        /\ ~dirExists
        /\ ~file.exists

C7_Witness ==
    /\ search_result = "returned"
    /\ search_topics = <<>>
    /\ pc = "done"
    /\ mode = "both"

\* C8 as claimed: after a search error the program ends with a non-zero
\* exit status.
C8_SearchErrorExitsNonZero ==
    (search_result = "raised" /\ pc = "done") => exitStatus # 0

\* C8 as amended: after a search error the program has printed the
\* diagnostic, run no fetch, not written the output artifact, and main
\* has returned normally: the exit status is 0, that of the success path.
C8_SearchErrorReturns ==
    search_result = "raised" =>
        /\ pc = "done"
        /\ "search_error" \in printed
        /\ fetchLog = <<>>
        /\ futures = <<>>
        /\ sinkCalls = <<>>
        /\ ~dirExists
        /\ ~file.exists
        /\ uncaught = "none"
        /\ exitStatus = 0

C8_Witness ==
    /\ search_result = "raised"
    /\ pc = "done"
    /\ printed = {"search_error"}

\* C9 as claimed: a finished task's record never waits for a task that was
\* submitted earlier and is still running: the collecting loop is never
\* blocked on an unfinished future while a later one is finished.
C9_CollectsAsCompleted ==
    ~ ( /\ pc = "concurrent"
        /\ AllSubmitted
        /\ next <= Len(futures)
        /\ futures[next].state # "FINISHED"
        /\ \E j \in DOMAIN futures : j > next /\ futures[j].state = "FINISHED" )

\* C9 as amended: the Concurrent Runner collects in submission order: the
\* k-th record appended is that of the k-th submitted future and carries the
\* k-th input topic, and it is appended only when every future submitted
\* before it has finished.
C9_CollectsInSubmissionOrder ==
    /\ collectOrder = [k \in 1..Len(collectOrder) |-> k]
    /\ Len(conc_all_results) = Len(collectOrder)
    /\ \A k \in DOMAIN conc_all_results :
         /\ conc_all_results[k].topic = search_topics[k]
         /\ \A j \in 1..k : futures[j].state = "FINISHED"

C9_Witness ==
    /\ pc = "concurrent"
    /\ AllSubmitted
    /\ Len(conc_all_results) >= 1
    /\ next <= Len(futures)
    /\ futures[next].state = "RUNNING"
    /\ \E j \in DOMAIN futures : j > next /\ futures[j].state = "FINISHED"

\* C10: under fair scheduling, with every remote call resolving, the
\* Concurrent Runner, once started, eventually returns.
C10_ConcurrentRunnerReturns ==
    (pc = "concurrent") ~> ("concurrent" \in returned)

C10_Witness ==
    /\ "concurrent" \in returned
    /\ Len(search_topics) > max_workers
    /\ max_workers > 1

====
